---- MODULE Spec2Model ----
(***************************************************************************)
(* Gesture-driven visual state engine of SingularDuo/HandTracking.         *)
(*                                                                         *)
(*   src/handTracking.js  detector callback, role assignment, extraction   *)
(*   src/main.js          layout state machine and animation tick          *)
(*   src/pointCloud.js    per-object visual / transform state              *)
(*                                                                         *)
(* Numbers.  The program computes in IEEE doubles.  Here every real value  *)
(* v is the integer round(v * SCALE) and a product with a rational factor  *)
(* num/den is rounded to the nearest unit (MulDiv), as each floating-point *)
(* operation rounds to the nearest representable value.  Times are in      *)
(* milliseconds, as performance.now() reports them.                        *)
(***************************************************************************)
EXTENDS Integers, Sequences, FiniteSets, TLC

\* ------------------------------------------------------------------ bounds
SCALE == 10000          \* fixed-point units per 1.0
MaxFrames == 2          \* detector callbacks explored per behaviour
MaxTicks == 3           \* runs of animate explored per behaviour
MaxDropoutFrames == 3   \* detector callbacks per behaviour of SpecDropout
MaxDropoutTicks == 4    \* runs of animate per behaviour of SpecDropout
MaxHandFrames == 2      \* detector callbacks per behaviour of SpecHands
MaxIdleTicks == 100     \* runs of animate per behaviour of SpecIdle
IdleSettleTicks == 95   \* runs of animate after which an idle object is culled
MaxStallTicks == 3      \* runs of animate of SpecIdle that a stall may precede
MaxDepthFrames == 3     \* detector callbacks per behaviour of SpecDepth
MaxResetFrames == 3     \* detector callbacks per behaviour of SpecReset
MaxMalformedFrames == 2 \* detector callbacks per behaviour of SpecMalformed
MaxMalformedTicks == 3  \* runs of animate per behaviour of SpecMalformed
MaxLoopFrames == 2      \* detector callbacks per behaviour of SpecLoop
MaxLoopTicks == 3       \* runs of animate per behaviour of SpecLoop
MaxLoopTime == 11000    \* milliseconds of a behaviour of SpecLoop
MaxStarts == 2          \* calls of startExperience per behaviour of SpecStarts
MaxStartsTicks == 4     \* runs of animate per behaviour of SpecStarts
MantissaBits == 4       \* significant bits a Number keeps (53 in the source's doubles)
MaxCloudSets == 2       \* calls of an object's setters per behaviour of SpecCloud
MaxCloudUpdates == 2    \* calls of an object's update per behaviour of SpecCloud

\* ------------------------------------------------------- fixed-point helpers
Abs(a) == IF a < 0 THEN -a ELSE a
Min(a, b) == IF a < b THEN a ELSE b
Max(a, b) == IF a > b THEN a ELSE b

\* a * num / den rounded to the nearest unit (halves away from zero), for
\* num >= 0 and den > 0; the quotient and the remainder of a by den are
\* multiplied apart so that no intermediate product leaves 32 bits
MulDivPos(a, num, den) ==
    (a \div den) * num + (2 * (a % den) * num + den) \div (2 * den)
MulDiv(a, num, den) ==
    IF a >= 0 THEN MulDivPos(a, num, den) ELSE -MulDivPos(-a, num, den)

\* v tenths / hundredths / thousandths as a fixed-point value
Tenths(n) == MulDiv(SCALE, n, 10)
Hundredths(n) == MulDiv(SCALE, n, 100)
Thousandths(n) == MulDiv(SCALE, n, 1000)

\* floor of the square root of n >= 0 (Math.sqrt on squared units), by
\* Newton's iteration downwards from a start x >= sqrt(n)
RECURSIVE SqrtIter(_, _)
SqrtIter(n, x) ==
    LET y == (x + n \div x) \div 2
    IN IF y >= x THEN x ELSE SqrtIter(n, y)
Sqrt(n) == IF n = 0 THEN 0 ELSE SqrtIter(n, 2 * SCALE)

\* ---------------------------------------------------------- handTracking.js
\* CONFIG.smoothing / CONFIG.gestures, as rationals num/den
PositionSmoothingNum == 3        \* smoothing.position 0.3 = 3/10
GestureSmoothingNum == 2         \* smoothing.gesture  0.2 = 2/10
SmoothingDen == 10
DepthSensitivity == 3
RotationSensitivity == 2
PinchExtentDen == 5              \* pinchDist / 0.2 = pinchDist * 5

\* LANDMARKS indices (0-based as in the source; a landmark list is a
\* sequence, so index i is element i + 1)
WRIST == 0
THUMB_TIP == 4
INDEX_TIP == 8
MIDDLE_TIP == 12
RING_TIP == 16
PINKY_TIP == 20
INDEX_MCP == 5
MIDDLE_MCP == 9
RING_MCP == 13
PINKY_MCP == 17
NumLandmarks == 21

At(landmarks, i) == landmarks[i + 1]

\* lerp(a, b, t) with t = num/den
lerp(a, b, num, den) == a + MulDiv(b - a, num, den)

\* A Number as the source has it: a binary floating-point value m * 2^e
\* with an odd mantissa m of at most MantissaBits bits (0 is m = 0, e = 0).
\* Every operation gives the exact result rounded to the nearest such value,
\* ties to the even mantissa, as IEEE 754 prescribes.
RECURSIVE Pow2(_)
Pow2(k) == IF k = 0 THEN 1 ELSE 2 * Pow2(k - 1)
RECURSIVE BitLength(_)
BitLength(n) == IF n = 0 THEN 0 ELSE 1 + BitLength(n \div 2)

\* n >= 0 divided by 2^k, rounded to nearest, ties to even
RoundShift(n, k) ==
    LET q == n \div Pow2(k)
        r == n % Pow2(k)
    IN IF 2 * r > Pow2(k) \/ (2 * r = Pow2(k) /\ q % 2 = 1) THEN q + 1 ELSE q

RECURSIVE Canonical(_, _)
Canonical(m, e) ==
    IF m = 0 THEN [m |-> 0, e |-> 0]
    ELSE IF m % 2 = 0 THEN Canonical(m \div 2, e + 1)
    ELSE [m |-> m, e |-> e]

\* the Number nearest to m * 2^e
Number(m, e) ==
    LET k == Max(0, BitLength(Abs(m)) - MantissaBits)
        r == RoundShift(Abs(m), k)
    IN Canonical(IF m < 0 THEN -r ELSE r, e + k)

NumberAdd(a, b) ==
    LET e == Min(a.e, b.e)
    IN Number(a.m * Pow2(a.e - e) + b.m * Pow2(b.e - e), e)
NumberSub(a, b) == NumberAdd(a, [m |-> -b.m, e |-> b.e])
NumberMul(a, b) == Number(a.m * b.m, a.e + b.e)
NumberLeq(a, b) ==
    LET e == Min(a.e, b.e)
    IN a.m * Pow2(a.e - e) <= b.m * Pow2(b.e - e)

\* lerp(a, b, t) on Numbers: a + (b - a) * t, each operation rounded
lerpNumber(a, b, t) == NumberAdd(a, NumberMul(NumberSub(b, a), t))

distance3D(a, b) ==
    Sqrt((a.x - b.x) * (a.x - b.x) + (a.y - b.y) * (a.y - b.y)
         + (a.z - b.z) * (a.z - b.z))

\* Math.atan2(y, x) in fixed-point radians.  The octant is reduced as atan2
\* does; inside the octant atan(r), 0 <= r <= 1, is r*(pi/4 + 0.273*(1 - r))
\* (error below 0.004 rad); the axis and diagonal values are exact.
PI == MulDiv(SCALE, 31416, 10000)
AtanUnit(r) == MulDiv(r, MulDiv(PI, 1, 4) + MulDiv(SCALE - r, 273, 1000), SCALE)
AtanQ1(y, x) ==      \* x >= 0, y >= 0, not both 0
    IF y <= x THEN AtanUnit(MulDiv(y, SCALE, x))
    ELSE MulDiv(PI, 1, 2) - AtanUnit(MulDiv(x, SCALE, y))
atan2(y, x) ==
    IF x = 0 /\ y = 0 THEN 0
    ELSE IF x >= 0 /\ y >= 0 THEN AtanQ1(y, x)
    ELSE IF x < 0 /\ y >= 0 THEN PI - AtanQ1(y, -x)
    ELSE IF x < 0 /\ y < 0 THEN -(PI - AtanQ1(-y, -x))
    ELSE -AtanQ1(-y, x)

\* calculateFistAmount: mean curl of the four non-thumb fingers
FingerTips == <<INDEX_TIP, MIDDLE_TIP, RING_TIP, PINKY_TIP>>
FingerMcps == <<INDEX_MCP, MIDDLE_MCP, RING_MCP, PINKY_MCP>>

FingerCurl(landmarks, i) ==
    LET tipDist == distance3D(At(landmarks, FingerTips[i]), At(landmarks, WRIST))
        mcpDist == distance3D(At(landmarks, FingerMcps[i]), At(landmarks, WRIST))
    IN IF tipDist < mcpDist THEN SCALE - MulDiv(tipDist, SCALE, mcpDist) ELSE 0

calculateFistAmount(landmarks) ==
    LET totalCurl == FingerCurl(landmarks, 1) + FingerCurl(landmarks, 2)
                     + FingerCurl(landmarks, 3) + FingerCurl(landmarks, 4)
    IN Max(0, Min(SCALE, MulDiv(totalCurl, 1, Len(FingerTips))))

\* null.  A nullable number (baselineZ) is the empty sequence when null and
\* <<v>> when it holds v; a null list (lastLandmarks) is the empty sequence;
\* a frame-request id is a positive number and 0 when unset (falsy).
Null == "null"
NullNumber == << >>
Some(v) == <<v>>
ValueOf(n) == n[1]
NoRequest == 0
NoCall == [op |-> "none"]

\* createHandState
createHandState ==
    [detected |-> FALSE,
     smoothedPosition |-> [x |-> Tenths(5), y |-> Tenths(5), z |-> Tenths(5)],
     smoothedPinch |-> SCALE,
     smoothedRotation |-> [x |-> 0, y |-> 0],
     baselineZ |-> NullNumber,
     lastLandmarks |-> << >>]

\* (mutant) the pinch distance normalised without the clamp to 1
PinchUnclamped(landmarks) ==
    distance3D(At(landmarks, THUMB_TIP), At(landmarks, INDEX_TIP)) * PinchExtentDen

\* pinchNormalized = Math.min(1, pinchDist / 0.2)
PinchNormalized(landmarks) ==
    Min(SCALE, distance3D(At(landmarks, THUMB_TIP), At(landmarks, INDEX_TIP))
               * PinchExtentDen)

\* extractGestureData(landmarks, handState): the handState it leaves behind
\* (the caller has already set detected and lastLandmarks)
ExtractState(landmarks, handState) ==
    LET wrist == At(landmarks, WRIST)
        middleTip == At(landmarks, MIDDLE_TIP)
        palmVector == [x |-> middleTip.x - wrist.x,
                       y |-> middleTip.y - wrist.y,
                       z |-> middleTip.z - wrist.z]
        rotationX == atan2(palmVector.z, palmVector.y) * RotationSensitivity
        rotationY == atan2(palmVector.x, palmVector.y) * RotationSensitivity
    IN [handState EXCEPT
          !.baselineZ = IF @ = NullNumber THEN Some(wrist.z) ELSE @,
          !.smoothedPosition =
              [x |-> lerp(@.x, wrist.x, PositionSmoothingNum, SmoothingDen),
               y |-> lerp(@.y, wrist.y, PositionSmoothingNum, SmoothingDen),
               z |-> lerp(@.z, wrist.z, PositionSmoothingNum, SmoothingDen)],
          !.smoothedPinch =
              lerp(@, PinchNormalized(landmarks), GestureSmoothingNum, SmoothingDen),
          !.smoothedRotation =
              [x |-> lerp(@.x, rotationX, GestureSmoothingNum, SmoothingDen),
               y |-> lerp(@.y, rotationY, GestureSmoothingNum, SmoothingDen)]]

\* extractGestureData's return value, computed from the updated handState
GestureData(landmarks, newState) ==
    [position |-> newState.smoothedPosition,
     pinch |-> newState.smoothedPinch,
     rotation |-> newState.smoothedRotation,
     zoom |-> (ValueOf(newState.baselineZ) - newState.smoothedPosition.z)
              * DepthSensitivity,
     fist |-> calculateFistAmount(landmarks)]

\* the record a role holds in outputData when no hand was processed for it
Undetected == [detected |-> FALSE]

\* (mutant) every forced label mapped to the left role
toLowerCase_AlwaysLeft(label) == "left"

\* forcedLabel.toLowerCase(): 'left' or 'right'
toLowerCase(label) == IF label = "Left" THEN "left" ELSE "right"

\* drawHand(ctx, landmarks, ...): the connection loop reads landmarks[i].x
\* for every index up to PINKY_TIP, so a list that ends before it makes the
\* loop read a property of undefined, which throws a TypeError
drawHandThrows(landmarks) == Len(landmarks) <= PINKY_TIP

\* processHand(handDataRaw, forcedLabel) on the triple <<state, outputData,
\* threw>>: nothing runs once an exception is on its way out of the
\* callback; a throw inside drawHand leaves the role marked detected with
\* the new lastLandmarks and nothing else done
processHand(so, handDataRaw, forcedLabel) ==
    LET handKey == toLowerCase(forcedLabel)
        marked == [so.state[handKey] EXCEPT !.detected = TRUE,
                                            !.lastLandmarks = handDataRaw.landmarks]
        newState == ExtractState(handDataRaw.landmarks, marked)
        gestureData == GestureData(handDataRaw.landmarks, newState)
    IN IF so.threw THEN so
       ELSE IF drawHandThrows(handDataRaw.landmarks)
       THEN [so EXCEPT !.state[handKey] = marked, !.threw = TRUE]
       ELSE [state |-> [so.state EXCEPT ![handKey] = newState],
             outputData |-> [so.outputData EXCEPT ![handKey] =
                 [detected |-> TRUE,
                  position |-> gestureData.position,
                  pinch |-> gestureData.pinch,
                  rotation |-> gestureData.rotation,
                  zoom |-> gestureData.zoom,
                  fist |-> gestureData.fist]],
             threw |-> FALSE]

\* the loop that builds handsData reads landmarks[0].x: an empty landmark
\* list makes it read a property of undefined, which throws a TypeError
HandsDataThrows(results) == \E i \in 1..Len(results) : Len(results[i].landmarks) = 0

\* handsData: one entry per reported hand, in the detector's order
HandsDataOf(results) ==
    [i \in 1..Len(results) |->
        [landmarks |-> results[i].landmarks,
         label |-> results[i].label,
         x |-> At(results[i].landmarks, WRIST).x]]

\* (mutant) the two entries left in the detector's order
SortByX_Unsorted(handsData) == handsData

\* (mutant) the two entries ordered by the detector's label, Left first
SortByX_ByLabel(handsData) ==
    IF handsData[1].label = "Right" /\ handsData[2].label = "Left"
    THEN <<handsData[2], handsData[1]>>
    ELSE handsData

\* handsData.sort((a, b) => a.x - b.x) for two entries (the sort is stable)
SortByX(handsData) ==
    IF handsData[2].x < handsData[1].x THEN <<handsData[2], handsData[1]>>
    ELSE handsData

\* (mutant) a single hand given its role by the side of the image it is on
SingleHandRoleByPosition(hand) == IF hand.x < Tenths(5) THEN "Left" ELSE "Right"

\* single hand: processHand(hand, hand.label)
SingleHandRole(hand) == hand.label

\* (mutant) the reset of the detection status also forgets the baselines
ResetDetection_ClearBaseline(st) ==
    [st EXCEPT !.left.detected = FALSE, !.left.baselineZ = NullNumber,
               !.right.detected = FALSE, !.right.baselineZ = NullNumber,
               !.bothDetected = FALSE]

\* "Reset detection status before processing"
ResetDetection(st) ==
    [st EXCEPT !.left.detected = FALSE,
               !.right.detected = FALSE,
               !.bothDetected = FALSE]

\* (mutant) two hands recorded in state.bothDetected only
MarkBothDetected_StateOnly(out) ==
    [state |-> [out.state EXCEPT !.bothDetected = TRUE],
     outputData |-> out.outputData,
     threw |-> FALSE]

\* two hands: state.bothDetected = true; outputData.bothDetected = true
MarkBothDetected(out) ==
    [state |-> [out.state EXCEPT !.bothDetected = TRUE],
     outputData |-> [out.outputData EXCEPT !.bothDetected = TRUE],
     threw |-> FALSE]

\* the body of hands.onResults up to the call of onHandUpdate; threw tells
\* that an exception left the callback before onHandUpdate was reached
ResultsOutcome(st, results) ==
    LET reset == [state |-> ResetDetection(st),
                  outputData |-> [left |-> Undetected, right |-> Undetected,
                                  bothDetected |-> FALSE],
                  threw |-> FALSE]
        handsData == HandsDataOf(results)
    IN IF Len(results) = 0 THEN reset
       ELSE IF HandsDataThrows(results) THEN [reset EXCEPT !.threw = TRUE]
       ELSE IF Len(handsData) = 2
       THEN LET sorted == SortByX(handsData)
                a == processHand(reset, sorted[1], "Left")
                b == processHand(a, sorted[2], "Right")
            IN IF b.threw THEN b
               ELSE MarkBothDetected(b)
       ELSE processHand(reset, handsData[1], SingleHandRole(handsData[1]))

\* ------------------------------------------------------------ pointCloud.js
\* Math.sin(a) for a fixed-point angle a (radians): reduced to [0, 2 pi) and
\* then to the first quadrant, where the series r - r^3/3! + ... + r^9/9! is
\* summed by Horner's rule (error below 2 units of 1/SCALE)
SinQuadrant(r) ==       \* 0 <= r <= PI / 2
    LET r2 == MulDiv(r, r, SCALE)
        t4 == SCALE - MulDiv(r2, 1, 72)
        t3 == SCALE - MulDiv(MulDiv(r2, t4, SCALE), 1, 42)
        t2 == SCALE - MulDiv(MulDiv(r2, t3, SCALE), 1, 20)
        t1 == SCALE - MulDiv(MulDiv(r2, t2, SCALE), 1, 6)
    IN MulDiv(r, t1, SCALE)
sin(a) ==
    LET r == a % (2 * PI)
        half == MulDiv(PI, 1, 2)
    IN IF r <= half THEN SinQuadrant(r)
       ELSE IF r <= PI THEN SinQuadrant(PI - r)
       ELSE IF r <= PI + half THEN -SinQuadrant(r - PI)
       ELSE -SinQuadrant(2 * PI - r)
\* Math.cos(a)
cos(a) == sin(a + MulDiv(PI, 1, 2))
\* Math.acos(c) for -1 <= c <= 1
acos(c) == atan2(Sqrt(SCALE * SCALE - c * c), c)

\* seconds (fixed-point) of a time in milliseconds: time = currentTime / 1000
Seconds(ms) == MulDiv(ms, SCALE, 1000)

VisualLerpNum == 5               \* update: lerpSpeed = 0.05 = 5/100
TransformLerpNum == 10           \* scale and rotation: 0.1 = 10/100
ZoomLerpNum == 8                 \* zoom: 0.08 = 8/100
LerpDen == 100
VisibleThreshold == Hundredths(1)    \* opacity > 0.01

\* createPointCloud: the state the returned object closes over
createPointCloud ==
    LET currentState == [hue |-> Hundredths(75), waveAmount |-> 0,
                         radiusScale |-> SCALE, spinSpeedMultiplier |-> SCALE,
                         opacity |-> SCALE]
    IN [currentState |-> currentState,
        targetState |-> currentState,
        transformState |-> [targetScale |-> SCALE, currentScale |-> SCALE,
                            targetRotationX |-> 0, targetRotationY |-> 0,
                            currentRotationX |-> 0, currentRotationY |-> 0,
                            targetZoom |-> 0, currentZoom |-> 0],
        group |-> [positionX |-> 0, positionZ |-> 0, scale |-> SCALE,
                   rotationX |-> 0, rotationY |-> 0],
        sphereMaterial |-> [opacity |-> Tenths(9), visible |-> TRUE],
        ringMaterial |-> [opacity |-> Tenths(6), visible |-> TRUE]]

Has(params, f) == f \in DOMAIN params

\* (mutant) the opacity tested for truthiness, so that 0 is ignored
setVisualState_Truthy(obj, params) ==
    [obj EXCEPT !.targetState =
        [hue |-> IF Has(params, "hue") THEN params.hue ELSE @.hue,
         waveAmount |-> IF Has(params, "waveAmount") THEN params.waveAmount
                        ELSE @.waveAmount,
         radiusScale |-> IF Has(params, "radiusScale") THEN params.radiusScale
                         ELSE @.radiusScale,
         spinSpeedMultiplier |-> IF Has(params, "spinSpeed") THEN params.spinSpeed
                                 ELSE @.spinSpeedMultiplier,
         opacity |-> IF Has(params, "opacity") /\ params.opacity # 0
                     THEN params.opacity ELSE @.opacity]]

\* setVisualState(params): a field absent from params is undefined
setVisualState(obj, params) ==
    [obj EXCEPT !.targetState =
        [hue |-> IF Has(params, "hue") THEN params.hue ELSE @.hue,
         waveAmount |-> IF Has(params, "waveAmount") THEN params.waveAmount
                        ELSE @.waveAmount,
         radiusScale |-> IF Has(params, "radiusScale") THEN params.radiusScale
                         ELSE @.radiusScale,
         spinSpeedMultiplier |-> IF Has(params, "spinSpeed") THEN params.spinSpeed
                                 ELSE @.spinSpeedMultiplier,
         opacity |-> IF Has(params, "opacity") THEN params.opacity ELSE @.opacity]]

\* (mutant) the scale taken as given
setScale_Unclamped(obj, scale) == [obj EXCEPT !.transformState.targetScale = scale]

setScale(obj, scale) ==
    [obj EXCEPT !.transformState.targetScale = Max(Tenths(1), Min(3 * SCALE, scale))]
setRotation(obj, x, y) ==
    [obj EXCEPT !.transformState.targetRotationX = x,
                !.transformState.targetRotationY = y]
setZoom(obj, zoom) ==
    [obj EXCEPT !.transformState.targetZoom = Max(-5 * SCALE, Min(2 * SCALE, zoom))]

\* animateSpherePoints / animateRingPoints: waveInfluence
waveInfluence(state) == Min(SCALE, state.waveAmount * 2)

\* (mutant) the threshold left out: rendered whenever the opacity is not 0
isVisible_NonZero(opacity) == opacity > 0

\* update, "Apply Opacity": visible = currentState.opacity > 0.01
isVisible(opacity) == opacity > VisibleThreshold

\* (mutant) the rotation about x handed to the user in every mode
rotationX_UserOnly(sway, currentRotationX, userRotInfluence) == currentRotationX

\* update, step 3: group.rotation.x, the sway weighted against the
\* user's rotation
rotationX(sway, currentRotationX, userRotInfluence) ==
    MulDiv(sway, SCALE - userRotInfluence, SCALE)
    + MulDiv(currentRotationX, userRotInfluence, SCALE)

\* update(time), steps 1 to 3 (time in milliseconds)
update(obj, time) ==
    LET cs == obj.currentState
        ts == obj.targetState
        tr == obj.transformState
        newState ==
            [hue |-> lerp(cs.hue, ts.hue, VisualLerpNum, LerpDen),
             waveAmount |-> lerp(cs.waveAmount, ts.waveAmount, VisualLerpNum, LerpDen),
             radiusScale |-> lerp(cs.radiusScale, ts.radiusScale, VisualLerpNum, LerpDen),
             spinSpeedMultiplier |-> lerp(cs.spinSpeedMultiplier, ts.spinSpeedMultiplier,
                                          VisualLerpNum, LerpDen),
             opacity |-> lerp(cs.opacity, ts.opacity, VisualLerpNum, LerpDen)]
        newTransform ==
            [tr EXCEPT
               !.currentScale = lerp(@, tr.targetScale, TransformLerpNum, LerpDen),
               !.currentRotationX = lerp(@, tr.targetRotationX, TransformLerpNum, LerpDen),
               !.currentRotationY = lerp(@, tr.targetRotationY, TransformLerpNum, LerpDen),
               !.currentZoom = lerp(@, tr.targetZoom, ZoomLerpNum, LerpDen)]
        userRotInfluence == Min(SCALE, newState.waveAmount * 5)
        autoSpin == MulDiv(MulDiv(Seconds(time), 5, 100),
                           newState.spinSpeedMultiplier, SCALE)
        sway == MulDiv(sin(MulDiv(Seconds(time), 2, 10)), 5, 100)
    IN [obj EXCEPT
          !.currentState = newState,
          !.sphereMaterial = [opacity |-> MulDiv(newState.opacity, 9, 10),
                              visible |-> isVisible(newState.opacity)],
          !.ringMaterial = [opacity |-> MulDiv(newState.opacity, 6, 10),
                            visible |-> isVisible(newState.opacity)],
          !.transformState = newTransform,
          !.group.scale = MulDiv(newTransform.currentScale, newState.radiusScale, SCALE),
          !.group.rotationY = autoSpin + newTransform.currentRotationY,
          !.group.rotationX = rotationX(sway, newTransform.currentRotationX,
                                        userRotInfluence),
          !.group.positionZ = newTransform.currentZoom]

\* CONFIG.sphere, CONFIG.ringCount, CONFIG.ringSpacing
SphereRadius == Tenths(15)
SphereSegments == 64
SphereRings == 40
RingCount == 5
RingSpacing == Tenths(4)
TotalPoints == SphereSegments * SphereRings
\* (1 + Math.sqrt(5)) / 2, the root taken as 2 * sqrt(5 / 4) to stay within
\* the range of Sqrt
GoldenRatio == MulDiv(SCALE + 2 * Sqrt((5 * SCALE * SCALE) \div 4), 1, 2)

\* (mutant) the z coordinate left on the unit sphere
SpherePoint_UnitZ(i) ==
    LET theta == MulDiv(2 * PI * i, SCALE, GoldenRatio)
        phi == acos(SCALE - MulDiv(SCALE, 2 * i + 1, TotalPoints))
        ring == MulDiv(SphereRadius, sin(phi), SCALE)
    IN [x |-> MulDiv(ring, cos(theta), SCALE),
        y |-> MulDiv(ring, sin(theta), SCALE),
        z |-> cos(phi)]

\* createSphereGeometry, the body of its loop: point i of the Fibonacci
\* sphere (2 * (i + 0.5) / totalPoints is (2 i + 1) / totalPoints)
SpherePoint(i) ==
    LET theta == MulDiv(2 * PI * i, SCALE, GoldenRatio)
        phi == acos(SCALE - MulDiv(SCALE, 2 * i + 1, TotalPoints))
        ring == MulDiv(SphereRadius, sin(phi), SCALE)
    IN [x |-> MulDiv(ring, cos(theta), SCALE),
        y |-> MulDiv(ring, sin(theta), SCALE),
        z |-> MulDiv(SphereRadius, cos(phi), SCALE)]

\* createOrbitalRing(index, config): radius, and the rest position of its
\* point i
RingRadius(index) == SphereRadius + (index + 1) * RingSpacing
RingSegments(index) == 80 + index * 20
RingPoint(index, i) ==
    LET angle == MulDiv(2 * PI, i, RingSegments(index))
    IN [x |-> MulDiv(RingRadius(index), cos(angle), SCALE),
        y |-> 0,
        z |-> MulDiv(RingRadius(index), sin(angle), SCALE),
        angle |-> angle]

\* (mutant) each point deformed from where the previous frame left it
animateSpherePoints_FromRendered(positions, originalPositions, time, state) ==
    LET t == Seconds(time)
        breathe == SCALE + MulDiv(MulDiv(sin(2 * t), 5, 1000),
                                  state.spinSpeedMultiplier, SCALE)
    IN [i \in 1..Len(originalPositions) |->
          LET orig == positions[i]
              wave == MulDiv(sin(orig.y * 4 + MulDiv(t, 15, 10)), 5, 100)
              wave2 == MulDiv(cos(orig.x * 3 + MulDiv(t, 105, 100)), 25, 1000)
              dynamicFactor == SCALE + wave + wave2
              Blend(c) == LET start == MulDiv(c, breathe, SCALE)
                              end == MulDiv(c, dynamicFactor, SCALE)
                          IN start + MulDiv(end - start, waveInfluence(state), SCALE)
          IN [x |-> Blend(orig.x), y |-> Blend(orig.y), z |-> Blend(orig.z)]]

\* animateSpherePoints(geometry, originalPositions, time, state): the new
\* content of the position buffer (time in milliseconds)
animateSpherePoints(positions, originalPositions, time, state) ==
    LET t == Seconds(time)
        breathe == SCALE + MulDiv(MulDiv(sin(2 * t), 5, 1000),
                                  state.spinSpeedMultiplier, SCALE)
    IN [i \in 1..Len(originalPositions) |->
          LET orig == originalPositions[i]
              wave == MulDiv(sin(orig.y * 4 + MulDiv(t, 15, 10)), 5, 100)
              wave2 == MulDiv(cos(orig.x * 3 + MulDiv(t, 105, 100)), 25, 1000)
              dynamicFactor == SCALE + wave + wave2
              Blend(c) == LET start == MulDiv(c, breathe, SCALE)
                              end == MulDiv(c, dynamicFactor, SCALE)
                          IN start + MulDiv(end - start, waveInfluence(state), SCALE)
          IN [x |-> Blend(orig.x), y |-> Blend(orig.y), z |-> Blend(orig.z)]]

\* animateRingPoints(ring, time, index, state): the new content of the
\* ring's position buffer
animateRingPoints(ring, time, index, state) ==
    LET t == Seconds(time)
        chaos == Hundredths(2) + MulDiv(Hundredths(8), waveInfluence(state), SCALE)
    IN [i \in 1..Len(ring.originalPositions) |->
          LET orig == ring.originalPositions[i]
              yOffset == MulDiv(sin(orig.angle * 3 + 2 * t + index * SCALE),
                                chaos, SCALE)
              radiusOffset == MulDiv(sin(orig.angle * 5 + MulDiv(t, 15, 10)),
                                     MulDiv(chaos, 1, 2), SCALE)
              r == ring.radius + radiusOffset
          IN [x |-> MulDiv(r, cos(orig.angle), SCALE),
              y |-> yOffset,
              z |-> MulDiv(r, sin(orig.angle), SCALE)]]

\* ------------------------------------------------------------------ main.js
\* LAYOUT_TARGETS
LayoutKeys == {"IDLE", "LEFT_SOLO", "RIGHT_SOLO", "DUAL"}
Objects == {"pink", "blue"}
Components == {"x", "opacity", "scale", "wave"}

LAYOUT_TARGETS ==
    [IDLE |->
        [pink |-> [x |-> 0, opacity |-> 0, scale |-> Tenths(1), wave |-> 0],
         blue |-> [x |-> 0, opacity |-> 0, scale |-> Tenths(1), wave |-> 0]],
     LEFT_SOLO |->
        [pink |-> [x |-> 0, opacity |-> SCALE, scale |-> SCALE, wave |-> 0],
         blue |-> [x |-> 4 * SCALE, opacity |-> 0, scale |-> Tenths(5), wave |-> SCALE]],
     RIGHT_SOLO |->
        [pink |-> [x |-> -4 * SCALE, opacity |-> 0, scale |-> Tenths(5), wave |-> SCALE],
         blue |-> [x |-> 0, opacity |-> SCALE, scale |-> SCALE, wave |-> 0]],
     DUAL |->
        [pink |-> [x |-> -Tenths(22), opacity |-> SCALE, scale |-> Tenths(8),
                   wave |-> SCALE],
         blue |-> [x |-> Tenths(22), opacity |-> SCALE, scale |-> Tenths(8),
                   wave |-> SCALE]]]

\* (mutant) the left role tested before bothDetected
TargetKey_LeftFirst(hd) ==
    IF hd.left.detected THEN "LEFT_SOLO"
    ELSE IF hd.bothDetected THEN "DUAL"
    ELSE IF hd.right.detected THEN "RIGHT_SOLO"
    ELSE "IDLE"

\* animate, step 1: the layout key chosen from handData
TargetKey(hd) ==
    IF hd.bothDetected THEN "DUAL"
    ELSE IF hd.left.detected THEN "LEFT_SOLO"
    ELSE IF hd.right.detected THEN "RIGHT_SOLO"
    ELSE "IDLE"

\* lerpSpeed = 3.0 * dt with dt = (currentTime - lastTime) / 1000, as the
\* rational LerpSpeedNum(dtMs) / LerpSpeedDen
LerpSpeedNum(dtMs) == 3 * dtMs
LerpSpeedDen == 1000

\* (mutant) opacity assigned from the target instead of interpolated
lerpObjectState_SnapOpacity(current, targetObj, dtMs) ==
    [x |-> lerp(current.x, targetObj.x, LerpSpeedNum(dtMs), LerpSpeedDen),
     opacity |-> targetObj.opacity,
     scale |-> lerp(current.scale, targetObj.scale, LerpSpeedNum(dtMs), LerpSpeedDen),
     wave |-> lerp(current.wave, targetObj.wave, LerpSpeedNum(dtMs), LerpSpeedDen)]

\* lerpObjectState(current, targetObj)
lerpObjectState(current, targetObj, dtMs) ==
    [x |-> lerp(current.x, targetObj.x, LerpSpeedNum(dtMs), LerpSpeedDen),
     opacity |-> lerp(current.opacity, targetObj.opacity, LerpSpeedNum(dtMs), LerpSpeedDen),
     scale |-> lerp(current.scale, targetObj.scale, LerpSpeedNum(dtMs), LerpSpeedDen),
     wave |-> lerp(current.wave, targetObj.wave, LerpSpeedNum(dtMs), LerpSpeedDen)]

\* updateObjectFromHand(object, handState)
updateObjectFromHand(obj, handState) ==
    setZoom(setRotation(setScale(obj, Tenths(5) + MulDiv(handState.pinch, 15, 10)),
                        handState.rotation.x, handState.rotation.y),
            handState.zoom)

\* (mutant) the control mapping of step 4 left out
AnimateObject_NoControl(obj, layout, hand, time) ==
    LET placed == [obj EXCEPT !.group.positionX = layout.x]
        styled == setVisualState(placed, [opacity |-> layout.opacity,
                                          radiusScale |-> layout.scale,
                                          waveAmount |-> layout.wave])
    IN update(styled, time)

\* (mutant) an object whose hand is lost goes back to the default targets
AnimateObject_ResetWhenLost(obj, layout, hand, time) ==
    LET placed == [obj EXCEPT !.group.positionX = layout.x]
        styled == setVisualState(placed, [opacity |-> layout.opacity,
                                          radiusScale |-> layout.scale,
                                          waveAmount |-> layout.wave])
        driven == IF hand.detected THEN updateObjectFromHand(styled, hand)
                  ELSE setZoom(setRotation(setScale(styled, SCALE), 0, 0), 0)
    IN update(driven, time)

\* animate, steps 3, 4 and the object's update, for one object
AnimateObject(obj, layout, hand, time) ==
    LET placed == [obj EXCEPT !.group.positionX = layout.x]
        styled == setVisualState(placed, [opacity |-> layout.opacity,
                                          radiusScale |-> layout.scale,
                                          waveAmount |-> layout.wave])
        driven == IF hand.detected THEN updateObjectFromHand(styled, hand) ELSE styled
    IN update(driven, time)

\* ------------------------------------------------- one point-cloud object
\* The points the model follows: two of the sphere's TotalPoints and one of
\* each ring's.  The geometry's position buffer starts as the rest positions.
FollowedPoints == <<100, 2000>>
FollowedSegment == 7

Position(p) == [x |-> p.x, y |-> p.y, z |-> p.z]

\* createPointCloud(scene), with what it closes over; time, sets, updates
\* and direct record the calls made: the time of the last update, the
\* number of setter and update calls, and whether setScale or setZoom was
\* called other than through updateObjectFromHand
NewCloud ==
    [object |-> createPointCloud,
     originalPositions |-> [k \in 1..Len(FollowedPoints) |-> SpherePoint(FollowedPoints[k])],
     positions |-> [k \in 1..Len(FollowedPoints) |-> SpherePoint(FollowedPoints[k])],
     rings |-> [r \in 1..RingCount |->
                  [radius |-> RingRadius(r - 1),
                   originalPositions |-> << RingPoint(r - 1, FollowedSegment) >>,
                   positions |-> << Position(RingPoint(r - 1, FollowedSegment)) >>]],
     time |-> 0, sets |-> 0, updates |-> 0, direct |-> FALSE]

\* ------------------------------------------------------------------- inputs
\* A landmark list: NumLandmarks points; the joints the extractor reads are
\* given, every other joint lies at the wrist.
Pt(w, dx, dy, dz) == [x |-> w.x + Tenths(dx), y |-> w.y + Tenths(dy), z |-> w.z + Tenths(dz)]

MkLandmarks(w, thumb, index, middle, others, mcp) ==
    [i \in 1..NumLandmarks |->
        IF i - 1 = THUMB_TIP THEN thumb
        ELSE IF i - 1 = INDEX_TIP THEN index
        ELSE IF i - 1 = MIDDLE_TIP THEN middle
        ELSE IF i - 1 \in {RING_TIP, PINKY_TIP} THEN others
        ELSE IF i - 1 \in {INDEX_MCP, MIDDLE_MCP, RING_MCP, PINKY_MCP} THEN mcp
        ELSE w]

Wrist(xTenths, zTenths) == [x |-> Tenths(xTenths), y |-> Tenths(6), z |-> Tenths(zTenths)]

\* open:  fingers stretched, thumb and index 0.28 apart (pinch 1, curl 0)
\* fist:  thumb on index, tips closer to the wrist than the knuckles
\* half:  thumb and index 0.1 apart, index curled, the rest stretched
\* flat:  every joint on the wrist (knuckle distance 0, palm vector 0)
Shape(name, w) ==
    CASE name = "open" ->
           MkLandmarks(w, Pt(w, -2, -2, 0), Pt(w, 0, -4, 0), Pt(w, 1, -4, -1),
                       Pt(w, 2, -4, 0), Pt(w, 0, -2, 0))
      [] name = "fist" ->
           MkLandmarks(w, Pt(w, 0, -1, 0), Pt(w, 0, -1, 0), Pt(w, 0, -1, 1),
                       Pt(w, 1, 0, 0), Pt(w, 0, -2, 0))
      [] name = "half" ->
           MkLandmarks(w, Pt(w, -1, -1, 0), Pt(w, 0, -1, 0), Pt(w, -1, -4, 0),
                       Pt(w, 2, -4, 1), Pt(w, 0, -3, 0))
      [] OTHER -> MkLandmarks(w, w, w, w, w, w)

Labels == {"Left", "Right"}
Hand(name, xTenths, zTenths, label) ==
    [landmarks |-> Shape(name, Wrist(xTenths, zTenths)), label |-> label]

\* The detector's results: zero, one or two hands, each with its label, in
\* the detector's order (results.multiHandLandmarks / multiHandedness).
\* Session frames: the four detection patterns.
SessionFrames ==
    { << >>,
      << Hand("open", 2, 5, "Left") >>,
      << Hand("open", 8, 5, "Right") >>,
      << Hand("open", 8, 5, "Left"), Hand("open", 2, 3, "Right") >> }

VARIABLES
    state,          \* handTracking.js: state.left, state.right, state.bothDetected
    handData,       \* main.js: the record last given to onHandUpdate
    currentLayout,  \* main.js: currentLayout.pink, currentLayout.blue
    pinkObject,     \* main.js: the object of the left role
    blueObject,     \* main.js: the object of the right role
    glowOpacity,    \* glowRing.ring.material.opacity
    handTracker,    \* main.js: Null until initHandTracking has returned
    animationId,    \* main.js: id of the frame request made last, or NoRequest
    rafQueue,       \* the host's pending animation-frame requests (ids)
    hidden,         \* document.hidden
    now,            \* performance.now(), milliseconds
    lastTime,       \* main.js: lastTime
    frames,         \* detector callbacks so far
    ticks,          \* runs of animate so far
    ui,             \* main.js: what the page shows: "instructions", "loading"
                    \* (initHandTracking awaited), "running", "failed"
    initCalls,      \* calls of initHandTracking so far
    starting,       \* calls of startExperience that await initHandTracking
    delivered,      \* the record last given to onHandUpdate
    lastOp,         \* the handler that ran last
    lastResults,    \* the results the last detector callback was given
    lastCall,       \* the last detector callback: the filters at entry, whether it threw
    lastTick,       \* what the last run of animate read and selected
    probe,          \* the last call of a helper function: its arguments and result
    cloud           \* a point-cloud object driven through its interface alone

vars == <<state, handData, currentLayout, pinkObject, blueObject, glowOpacity,
          handTracker, animationId, rafQueue, hidden, now, lastTime,
          frames, ticks, ui, initCalls, starting, delivered, lastOp, lastResults,
          lastCall, lastTick, probe, cloud>>

trackingVars == <<state, handData, delivered, lastCall, lastResults, frames>>
sceneVars == <<currentLayout, pinkObject, blueObject, glowOpacity>>
loopVars == <<handTracker, animationId, rafQueue, hidden, lastTime>>
unitVars == <<probe, cloud>>

\* the filter fields of the two roles (createHandState without the
\* landmark list)
FilterOf(handState) ==
    [detected |-> handState.detected,
     smoothedPosition |-> handState.smoothedPosition,
     smoothedPinch |-> handState.smoothedPinch,
     smoothedRotation |-> handState.smoothedRotation,
     baselineZ |-> handState.baselineZ]
FiltersOf(st) == [left |-> FilterOf(st.left), right |-> FilterOf(st.right)]

\* init(): objects created, each hidden by a target opacity of 0
Init ==
    /\ state = [left |-> createHandState, right |-> createHandState,
                bothDetected |-> FALSE]
    /\ handData = [left |-> Undetected, right |-> Undetected, bothDetected |-> FALSE]
    /\ currentLayout = [pink |-> [x |-> 0, opacity |-> 0, scale |-> SCALE, wave |-> 0],
                        blue |-> [x |-> 0, opacity |-> 0, scale |-> SCALE, wave |-> 0]]
    /\ pinkObject = setVisualState(createPointCloud,
                                   [hue |-> Hundredths(85), opacity |-> 0])
    /\ blueObject = setVisualState(createPointCloud,
                                   [hue |-> Hundredths(55), opacity |-> 0])
    /\ glowOpacity = Tenths(2)
    /\ handTracker = Null
    /\ animationId = NoRequest
    /\ rafQueue = {}
    /\ hidden = FALSE
    /\ now = 0
    /\ lastTime = 0
    /\ frames = 0
    /\ ticks = 0
    /\ ui = "instructions"
    /\ initCalls = 0
    /\ starting = 0
    /\ delivered = handData
    /\ lastOp = "init"
    /\ lastResults = << >>
    /\ lastCall = [before |-> FiltersOf(state), threw |-> FALSE]
    /\ lastTick = [dt |-> 0, key |-> "IDLE", read |-> handData,
                   before |-> currentLayout,
                   opacityBefore |-> [pink |-> pinkObject.currentState.opacity,
                                      blue |-> blueObject.currentState.opacity],
                   keys |-> << >>,
                   hidden |-> FALSE,
                   objectsBefore |-> [pink |-> pinkObject, blue |-> blueObject]]
    /\ probe = NoCall
    /\ cloud = NewCloud

\* requestAnimationFrame: the id of a new request, distinct from every
\* pending one
NewRequest(pending) == CHOOSE id \in 1..(Cardinality(pending) + 1) : id \notin pending

\* animate() run at time currentTime with lastTime holding `last`, having
\* been called for the pending request `fired` ({} when called directly),
\* document.hidden being isHidden
animate(last, currentTime, fired, isHidden) ==
    LET dt == currentTime - last
        targetKey == TargetKey(handData)
        target == LAYOUT_TARGETS[targetKey]
        layout == [pink |-> lerpObjectState(currentLayout.pink, target.pink, dt),
                   blue |-> lerpObjectState(currentLayout.blue, target.blue, dt)]
        id == NewRequest(rafQueue \ fired)
    IN /\ animationId' = id
       /\ rafQueue' = (rafQueue \ fired) \cup {id}
       /\ lastTime' = currentTime
       /\ currentLayout' = layout
       /\ pinkObject' = AnimateObject(pinkObject, layout.pink, handData.left, currentTime)
       /\ blueObject' = AnimateObject(blueObject, layout.blue, handData.right, currentTime)
       /\ glowOpacity' = lerp(glowOpacity, IF targetKey = "DUAL" THEN 0 ELSE Tenths(2),
                              LerpSpeedNum(dt), LerpSpeedDen)
       /\ ticks' = ticks + 1
       /\ lastTick' = [dt |-> dt, key |-> targetKey, read |-> handData,
                       before |-> currentLayout,
                       opacityBefore |-> [pink |-> pinkObject.currentState.opacity,
                                          blue |-> blueObject.currentState.opacity],
                       keys |-> <<targetKey>> \o SubSeq(lastTick.keys, 1,
                                                        Min(2, Len(lastTick.keys))),
                       hidden |-> isHidden,
                       objectsBefore |-> [pink |-> pinkObject, blue |-> blueObject]]

\* startExperience() with initHandTracking succeeding at once: lastTime is
\* stamped and animate() is called
StartExperience ==
    /\ ui = "instructions" /\ handTracker = Null
    /\ ui' = "running"
    /\ initCalls' = initCalls + 1
    /\ handTracker' = "tracker"
    /\ animate(now, now, {}, hidden)
    /\ lastOp' = "start"
    /\ UNCHANGED <<unitVars, trackingVars, hidden, now, starting>>

\* the host runs a pending frame request elapsed ms after the previous
\* event; it runs none while the document is hidden
Frame(elapsed) ==
    /\ ~hidden
    /\ \E id \in rafQueue :
         /\ now' = now + elapsed
         /\ animate(lastTime, now + elapsed, {id}, hidden)
    /\ lastOp' = "tick"
    /\ UNCHANGED <<unitVars, trackingVars, handTracker, hidden, ui, initCalls, starting>>

\* hands.onResults(results), ending in onHandUpdate(outputData) unless an
\* exception left the callback first
onResults(results) ==
    \E out \in {ResultsOutcome(state, results)} :
       /\ handTracker # Null
       /\ state' = out.state
       /\ handData' = IF out.threw THEN handData ELSE out.outputData
       /\ delivered' = IF out.threw THEN delivered ELSE out.outputData
       /\ frames' = frames + 1
       /\ lastOp' = "results"
       /\ lastResults' = results
       /\ lastCall' = [before |-> FiltersOf(state), threw |-> out.threw]
       /\ UNCHANGED <<unitVars, sceneVars, loopVars, now, ticks, ui, initCalls, starting, lastTick>>

\* elapsed times between frames, in milliseconds: a display-rate frame and
\* a stalled one
FrameTimes == {16, 1000}

Results == \E results \in SessionFrames : frames < MaxFrames /\ onResults(results)
Tick == \E elapsed \in FrameTimes : ticks < MaxTicks /\ Frame(elapsed)

Next == StartExperience \/ Results \/ Tick

Spec == Init /\ [][Next]_vars

\* the time between two frames at display rate, in milliseconds
DisplayFrameTime == 16

\* ------------------------------------------------ a role dropping out
\* Both hands, or one of them missed by the detector.
DropoutFrames ==
    { << Hand("open", 2, 5, "Left") >>,
      << Hand("open", 8, 5, "Right") >>,
      << Hand("open", 8, 5, "Left"), Hand("open", 2, 3, "Right") >> }

DropoutResults ==
    \E results \in DropoutFrames : frames < MaxDropoutFrames /\ onResults(results)
DropoutTick == \E elapsed \in FrameTimes : ticks < MaxDropoutTicks /\ Frame(elapsed)

NextDropout == StartExperience \/ DropoutResults \/ DropoutTick

SpecDropout == Init /\ [][NextDropout]_vars

\* ------------------------------------------- the detector callback alone
\* Frames with every shape, both sides of the image and every labelling:
\* one hand, and two hands at distinct wrist x in either order.
ShapeDepth(name) == CASE name = "open" -> 5 [] name = "fist" -> 3
                      [] name = "half" -> 4 [] OTHER -> 5
OneHandFrames ==
    { << Hand(name, x, ShapeDepth(name), label) >> :
        name \in {"open", "fist", "half", "flat"}, x \in {2, 8}, label \in Labels }
TwoHandFrames ==
    { << Hand(shapes[1], xs[1], ShapeDepth(shapes[1]), labels[1]),
         Hand(shapes[2], xs[2], ShapeDepth(shapes[2]), labels[2]) >> :
        shapes \in {<<"open", "fist">>, <<"fist", "open">>},
        xs \in {<<2, 8>>, <<8, 2>>},
        labels \in Labels \X Labels }
HandFrames == { << >> } \cup OneHandFrames \cup TwoHandFrames

HandResults == \E results \in HandFrames : frames < MaxHandFrames /\ onResults(results)

NextHands == StartExperience \/ HandResults

SpecHands == Init /\ [][NextHands]_vars

\* ------------------------------------------------- a session with no hand
\* The detector reports no hand; frames come at display rate, the early ones
\* possibly after a stall of 400 ms.
IdleFrameTimes == {DisplayFrameTime, 400}

IdleResults == frames < MaxFrames /\ onResults(<< >>)
IdleTick ==
    \E elapsed \in IdleFrameTimes :
        /\ ticks < MaxIdleTicks
        /\ elapsed > DisplayFrameTime => ticks <= MaxStallTicks
        /\ Frame(elapsed)

NextIdle == StartExperience \/ IdleResults \/ IdleTick

SpecIdle == Init /\ [][NextIdle]_vars

\* ------------------------------------------- one hand at changing depth
\* No hand, or one open hand at wrist depth 0.3 or 0.7 under either label.
DepthFrames ==
    { << >> } \cup { << Hand("open", 2, z, label) >> : z \in {3, 7}, label \in Labels }

DepthResults ==
    \E results \in DepthFrames : frames < MaxDepthFrames /\ onResults(results)

NextDepth == StartExperience \/ DepthResults

SpecDepth == Init /\ [][NextDepth]_vars

\* ------------------------------------- depth frames and resetBaseline
\* (mutant) only the left role's baseline cleared
resetBaseline_LeftOnly(st) == [st EXCEPT !.left.baselineZ = NullNumber]

\* resetBaseline() of the object initHandTracking returns
resetBaseline(st) ==
    [st EXCEPT !.left.baselineZ = NullNumber, !.right.baselineZ = NullNumber]

\* a caller resets the baselines between two detector callbacks; probe
\* keeps the tracker state the call found
ResetBaseline ==
    /\ handTracker # Null
    /\ lastOp # "reset"
    /\ state' = resetBaseline(state)
    /\ probe' = [op |-> "resetBaseline", before |-> state]
    /\ lastOp' = "reset"
    /\ UNCHANGED <<cloud, handData, delivered, lastCall, lastResults, frames,
                   sceneVars, loopVars, now, ticks, ui, initCalls, starting, lastTick>>

ResetResults ==
    \E results \in DepthFrames : frames < MaxResetFrames /\ onResults(results)

NextReset == StartExperience \/ ResetResults \/ ResetBaseline

SpecReset == Init /\ [][NextReset]_vars

\* ------------------------------------------ frames with too few points
\* A landmark list cut to its first n points (n < NumLandmarks)
ShortHand(n, label) ==
    [landmarks |-> SubSeq(Hand("fist", 2, 3, label).landmarks, 1, n), label |-> label]

\* No hand, a well-formed left hand, a left hand one point short, a hand
\* with no point at all, and a well-formed hand beside one that is short.
MalformedFrames ==
    { << >>,
      << Hand("open", 2, 5, "Left") >>,
      << ShortHand(PINKY_TIP, "Left") >>,
      << ShortHand(0, "Right") >>,
      << Hand("open", 2, 5, "Left"), ShortHand(PINKY_MCP, "Right") >> }

MalformedResults ==
    \E results \in MalformedFrames : frames < MaxMalformedFrames /\ onResults(results)
MalformedTick == ticks < MaxMalformedTicks /\ Frame(DisplayFrameTime)

NextMalformed == StartExperience \/ MalformedResults \/ MalformedTick

SpecMalformed == Init /\ [][NextMalformed]_vars

\* ------------------------------------ start, visibility and the frame loop
\* startExperience() up to its await of initHandTracking
StartClick ==
    /\ ui = "instructions"
    /\ ui' = "loading"
    /\ initCalls' = initCalls + 1
    /\ starting' = starting + 1
    /\ lastOp' = "click"
    /\ UNCHANGED <<unitVars, trackingVars, sceneVars, loopVars, now, ticks, lastTick>>

\* the await returns the tracker: startExperience() goes on to stamp
\* lastTime and to call animate()
InitSucceeds ==
    /\ starting > 0
    /\ starting' = starting - 1
    /\ ui' = "running"
    /\ handTracker' = "tracker"
    /\ animate(now, now, {}, hidden)
    /\ lastOp' = "start"
    /\ UNCHANGED <<unitVars, trackingVars, hidden, now, initCalls>>

\* the await throws: the catch block shows the failure message
InitFails ==
    /\ starting > 0
    /\ starting' = starting - 1
    /\ ui' = IF handTracker # Null THEN ui ELSE "failed"
    /\ lastOp' = "failed"
    /\ UNCHANGED <<unitVars, trackingVars, sceneVars, loopVars, now, ticks, initCalls, lastTick>>

\* visibilitychange with document.hidden true
VisibilityHidden ==
    /\ ~hidden
    /\ hidden' = TRUE
    /\ IF animationId # NoRequest
       THEN /\ rafQueue' = rafQueue \ {animationId}
            /\ animationId' = NoRequest
       ELSE UNCHANGED <<rafQueue, animationId>>
    /\ lastOp' = "hidden"
    /\ UNCHANGED <<unitVars, trackingVars, sceneVars, handTracker, lastTime, now, ticks,
                   ui, initCalls, starting, lastTick>>

\* (mutant) the loop resumed without the test of handTracker
VisibilityVisible_NoTrackerTest(elapsed) ==
    /\ hidden
    /\ hidden' = FALSE
    /\ now' = now + elapsed
    /\ IF animationId = NoRequest
       THEN /\ animate(now + elapsed, now + elapsed, {}, FALSE)
            /\ lastOp' = "resume"
       ELSE /\ lastOp' = "visible"
            /\ UNCHANGED <<sceneVars, animationId, rafQueue, lastTime, ticks, lastTick>>
    /\ UNCHANGED <<unitVars, trackingVars, handTracker, ui, initCalls, starting>>

\* visibilitychange with document.hidden false, elapsed ms after the
\* previous event
VisibilityVisible(elapsed) ==
    /\ hidden
    /\ hidden' = FALSE
    /\ now' = now + elapsed
    /\ IF handTracker # Null /\ animationId = NoRequest
       THEN /\ animate(now + elapsed, now + elapsed, {}, FALSE)
            /\ lastOp' = "resume"
       ELSE /\ lastOp' = "visible"
            /\ UNCHANGED <<sceneVars, animationId, rafQueue, lastTime, ticks, lastTick>>
    /\ UNCHANGED <<unitVars, trackingVars, handTracker, ui, initCalls, starting>>

\* the frames of a session with visibility events: no hand, or a closed
\* left hand near the camera
LoopFrames == { << >>, << Hand("fist", 2, 3, "Left") >> }
\* the time the page stays hidden, in milliseconds
GapTimes == {5000}

LoopResults == \E results \in LoopFrames : frames < MaxLoopFrames /\ onResults(results)
LoopTick == \E elapsed \in FrameTimes : ticks < MaxLoopTicks /\ Frame(elapsed)
LoopStart == ticks < MaxLoopTicks /\ InitSucceeds
LoopHidden == VisibilityHidden
LoopVisible ==
    \E elapsed \in GapTimes :
        /\ ticks < MaxLoopTicks
        /\ now + elapsed <= MaxLoopTime
        /\ VisibilityVisible(elapsed)

NextLoop == StartClick \/ LoopStart \/ InitFails \/ LoopHidden \/ LoopVisible
            \/ LoopTick \/ LoopResults

SpecLoop == Init /\ [][NextLoop]_vars

\* ------------------------------------------- starts, visibility and unload
\* the click listener of the start button run again while a call of
\* startExperience awaits initHandTracking: nothing removes the listener
\* and startExperience does not test whether a start is under way
StartClickAgain ==
    /\ ui = "loading"
    /\ initCalls < MaxStarts
    /\ initCalls' = initCalls + 1
    /\ starting' = starting + 1
    /\ lastOp' = "click"
    /\ UNCHANGED <<unitVars, trackingVars, sceneVars, loopVars, now, ticks, ui, lastTick>>

\* cleanup(), the beforeunload listener (the host may keep the page, the
\* navigation being one that does not replace the document): the request
\* of animationId is cancelled and animationId is left as it is
cleanup ==
    /\ rafQueue' = rafQueue \ {animationId}
    /\ lastOp' = "cleanup"
    /\ UNCHANGED <<unitVars, trackingVars, sceneVars, handTracker, animationId, hidden,
                   lastTime, now, ticks, ui, initCalls, starting, lastTick>>

\* the host runs the pending requests of one frame one after the other, the
\* later ones with no time elapsed
StartsFrameTimes == {0, DisplayFrameTime}

StartsTick ==
    \E elapsed \in StartsFrameTimes :
        /\ ticks < MaxStartsTicks
        /\ elapsed = 0 => lastOp = "tick" /\ rafQueue # {animationId}
        /\ Frame(elapsed)
StartsInit == ticks < MaxStartsTicks /\ InitSucceeds
StartsCleanup == lastOp # "cleanup" /\ handTracker # Null /\ cleanup
StartsVisible ==
    \E elapsed \in GapTimes :
        /\ ticks < MaxStartsTicks
        /\ now + elapsed <= MaxLoopTime
        /\ VisibilityVisible(elapsed)

NextStarts == StartClick \/ StartClickAgain \/ StartsInit \/ InitFails
              \/ VisibilityHidden \/ StartsVisible \/ StartsTick \/ StartsCleanup

SpecStarts == Init /\ [][NextStarts]_vars

\* ------------------------------------- the interface of a point-cloud object
\* object.update(time): steps 1 to 3, then the sphere's and every ring's
\* position buffer rewritten
CloudUpdate(time) ==
    \E obj \in {update(cloud.object, time)} :
       /\ cloud.updates < MaxCloudUpdates
       /\ cloud' = [cloud EXCEPT
             !.object = obj,
             !.positions = animateSpherePoints(@, cloud.originalPositions, time,
                                               obj.currentState),
             !.rings = [r \in 1..RingCount |->
                          [@[r] EXCEPT !.positions =
                              animateRingPoints(cloud.rings[r], time, r - 1,
                                                obj.currentState)]],
             !.time = time,
             !.updates = @ + 1]
       /\ lastOp' = "update"
       /\ UNCHANGED <<trackingVars, sceneVars, loopVars, now, ticks, ui, initCalls, starting,
                      lastTick, probe>>

\* a setter call: the object it leaves
CloudSet(obj, op, direct) ==
    /\ cloud.sets < MaxCloudSets
    /\ cloud' = [cloud EXCEPT !.object = obj, !.sets = @ + 1,
                              !.direct = @ \/ direct]
    /\ lastOp' = op
    /\ UNCHANGED <<trackingVars, sceneVars, loopVars, now, ticks, ui, initCalls, starting,
                   lastTick, probe>>

CloudSetVisualState(params) ==
    CloudSet(setVisualState(cloud.object, params), "setVisualState", FALSE)
CloudSetScale(scale) == CloudSet(setScale(cloud.object, scale), "setScale", TRUE)
CloudSetRotation(x, y) == CloudSet(setRotation(cloud.object, x, y), "setRotation", FALSE)
CloudSetZoom(zoom) == CloudSet(setZoom(cloud.object, zoom), "setZoom", TRUE)
\* updateObjectFromHand(object, handState), as the tick calls it
CloudFromHand(handState) ==
    CloudSet(updateObjectFromHand(cloud.object, handState), "fromHand", FALSE)

\* the arguments of the calls: a stable and a dynamic visual state (the
\* second with a wave amount as a long frame leaves it, see C5), scales and
\* zooms on both sides of the accepted ranges, the times 0 and 2.5 s, and
\* control signals with the pinch at both ends and in the middle of [0, 1]
CloudVisualStates ==
    { [waveAmount |-> 0, opacity |-> SCALE],
      [waveAmount |-> 10 * SCALE, opacity |-> SCALE, spinSpeed |-> 2 * SCALE] }
CloudScales == { 0, 5 * SCALE }
CloudZooms == { -9 * SCALE, 9 * SCALE }
CloudRotations == { <<Tenths(8), -Tenths(6)>> }
CloudTimes == { 0, 2500 }
CloudSignals ==
    { [detected |-> TRUE, pinch |-> pinch, zoom |-> Tenths(3),
       rotation |-> [x |-> Tenths(2), y |-> Tenths(4)]] :
        pinch \in {0, Tenths(5), SCALE} }

CloudVisual == \E params \in CloudVisualStates : CloudSetVisualState(params)
CloudScale == \E scale \in CloudScales : CloudSetScale(scale)
CloudRotation == \E r \in CloudRotations : CloudSetRotation(r[1], r[2])
CloudZoom == \E zoom \in CloudZooms : CloudSetZoom(zoom)
CloudControl == \E handState \in CloudSignals : CloudFromHand(handState)
CloudFrame == \E time \in CloudTimes : CloudUpdate(time)

NextCloud == CloudVisual \/ CloudScale \/ CloudRotation \/ CloudZoom
             \/ CloudControl \/ CloudFrame

SpecCloud == Init /\ [][NextCloud]_vars

\* ------------------------------------------- the creation of the sphere
\* createSphereGeometry's loop, one iteration per step: probe.i is the
\* index pushed last and probe.out its position
SphereStep ==
    \E i \in {IF probe.op = "sphere" THEN probe.i + 1 ELSE 0} :
       /\ probe.op \in {"none", "sphere"}
       /\ i < TotalPoints
       /\ probe' = [op |-> "sphere", i |-> i, out |-> SpherePoint(i)]
       /\ lastOp' = "sphere"
       /\ UNCHANGED <<trackingVars, sceneVars, loopVars, now, ticks, ui, initCalls, starting,
                      lastTick, cloud>>

NextSphere == SphereStep

SpecSphere == Init /\ [][NextSphere]_vars

\* ----------------------------------------------------- the smoothing helper
\* Numbers of [0, 1] of several magnitudes, and the factors 1, 1/2 and the
\* Numbers nearest to 0.3 and 0.2
One == Number(1, 0)
SmoothValues ==
    { v \in { Number(m, e) : m \in {0, 1, 5, 13}, e \in {-7, -4, -1} } :
        NumberLeq(v, One) }
SmoothFactors == { One, Number(1, -1), Number(5, -4), Number(13, -6) }

\* one call lerp(p, x, f)
SmoothCall ==
    \E p \in SmoothValues, x \in SmoothValues, f \in SmoothFactors :
        /\ probe' = [op |-> "lerp", p |-> p, x |-> x, f |-> f,
                      out |-> lerpNumber(p, x, f)]
        /\ lastOp' = "lerp"
        /\ UNCHANGED <<trackingVars, sceneVars, loopVars, now, ticks, ui, initCalls, starting,
                       lastTick, cloud>>

NextSmooth == SmoothCall

SpecSmooth == Init /\ [][NextSmooth]_vars

\* ------------------------------------------------------------------ claims
WristX(hand) == At(hand.landmarks, WRIST).x
Roles == {"left", "right"}

\* C1: after a detector callback that reported two hands with distinct wrist
\* x, the left role holds the hand with the smaller x and the right role the
\* hand with the larger x (its landmarks are the role's lastLandmarks and the
\* role is reported detected), whatever the two labels and the order in which
\* the detector listed the hands.
C1_SpatialRoles ==
    (lastOp = "results" /\ Len(lastResults) = 2
        /\ WristX(lastResults[1]) # WristX(lastResults[2]))
    => LET lo == IF WristX(lastResults[1]) < WristX(lastResults[2]) THEN 1 ELSE 2
       IN /\ state.left.lastLandmarks = lastResults[lo].landmarks
          /\ state.right.lastLandmarks = lastResults[3 - lo].landmarks
          /\ handData.left.detected /\ handData.right.detected
          /\ state.left.detected /\ state.right.detected

\* C1 witness: the detector listed the right-hand-side hand first and
\* labelled it Left, labelled the other Right, and the roles went by position
C1_Witness ==
    /\ lastOp = "results" /\ Len(lastResults) = 2
    /\ WristX(lastResults[1]) > WristX(lastResults[2])
    /\ lastResults[1].label = "Left" /\ lastResults[2].label = "Right"
    /\ state.left.lastLandmarks = lastResults[2].landmarks
    /\ state.right.lastLandmarks = lastResults[1].landmarks

\* C2: after a detector callback that reported exactly one hand, the role
\* named by the hand's label holds it, whatever its wrist x; the other role
\* is reported not detected and bothDetected is false.
C2_SingleHandByLabel ==
    (lastOp = "results" /\ Len(lastResults) = 1)
    => LET role == IF lastResults[1].label = "Left" THEN "left" ELSE "right"
           other == IF role = "left" THEN "right" ELSE "left"
       IN /\ state[role].lastLandmarks = lastResults[1].landmarks
          /\ state[role].detected /\ handData[role].detected
          /\ ~state[other].detected /\ ~handData[other].detected
          /\ ~handData.bothDetected /\ ~state.bothDetected

\* C2 witness: a single hand on the right of the image labelled Left was
\* given to the left role
C2_Witness ==
    /\ lastOp = "results" /\ Len(lastResults) = 1
    /\ lastResults[1].label = "Left" /\ WristX(lastResults[1]) > Tenths(5)
    /\ handData.left.detected /\ ~handData.right.detected

\* C9: in every record delivered, the pinch and the fist (curl) of a detected
\* role are in [0, 1].
C9_PinchCurlInUnit ==
    \A role \in Roles :
        handData[role].detected =>
            /\ 0 <= handData[role].pinch /\ handData[role].pinch <= SCALE
            /\ 0 <= handData[role].fist /\ handData[role].fist <= SCALE
            /\ 0 <= state[role].smoothedPinch /\ state[role].smoothedPinch <= SCALE

\* C9 witness: a hand whose knuckles lie on the wrist (knuckle distance 0)
\* was processed from the initial filter state
C9_Witness ==
    /\ lastOp = "results" /\ frames = 1 /\ Len(lastResults) = 1
    /\ At(lastResults[1].landmarks, INDEX_MCP) = At(lastResults[1].landmarks, WRIST)
    /\ \E role \in Roles : handData[role].detected /\ handData[role].fist = 0

\* The layout table of the claims: the key for each pair of detected flags
KeyOfFlags(leftDetected, rightDetected) ==
    IF leftDetected /\ rightDetected THEN "DUAL"
    ELSE IF leftDetected THEN "LEFT_SOLO"
    ELSE IF rightDetected THEN "RIGHT_SOLO"
    ELSE "IDLE"

\* C3: the layout a tick selected is the table's entry for the two detected
\* flags of the record the tick read, whatever was selected before.
C3_LayoutFromFlags ==
    lastTick.key = KeyOfFlags(lastTick.read.left.detected, lastTick.read.right.detected)

\* C3 witness: a tick selected LEFT_SOLO right after a tick that selected
\* DUAL (both flags true, then only the left one)
C3_Witness ==
    /\ lastOp = "tick" /\ Len(lastTick.keys) >= 2
    /\ lastTick.keys[1] = "LEFT_SOLO" /\ lastTick.keys[2] = "DUAL"
    /\ lastTick.read.left.detected /\ ~lastTick.read.right.detected

\* the interval spanned by a component's values over the four LayoutTargets
TargetValues(obj, comp) == { LAYOUT_TARGETS[k][obj][comp] : k \in LayoutKeys }
TargetLow(obj, comp) ==
    CHOOSE v \in TargetValues(obj, comp) : \A u \in TargetValues(obj, comp) : v <= u
TargetHigh(obj, comp) ==
    CHOOSE v \in TargetValues(obj, comp) : \A u \in TargetValues(obj, comp) : v >= u

\* C4 (as claimed): every component of currentLayout lies within the interval
\* spanned by its values over the four LayoutTargets.
C4_LayoutWithinTargets ==
    \A obj \in Objects : \A comp \in Components :
        /\ TargetLow(obj, comp) <= currentLayout[obj][comp]
        /\ currentLayout[obj][comp] <= TargetHigh(obj, comp)

Between(v, a, b) == (a <= v /\ v <= b) \/ (b <= v /\ v <= a)

\* C5 (as claimed): a tick that selects the layout the previous tick selected
\* leaves every component between its old value and the selected target.
C5_NoOvershoot ==
    (lastOp = "tick" /\ Len(lastTick.keys) >= 2 /\ lastTick.keys[1] = lastTick.keys[2])
    => \A obj \in Objects : \A comp \in Components :
          Between(currentLayout[obj][comp], lastTick.before[obj][comp],
                  LAYOUT_TARGETS[lastTick.key][obj][comp])

\* C6: after every run of animate each component of currentLayout is
\* old + (selectedTarget - old) * (3 * dt), the target being the one of the
\* flags read, whether or not the selection changed; so a tick changes no
\* component by more than its factor times the distance to the selected
\* target (rounded to the unit).
C6_StepIsLerp ==
    ticks >= 1 =>
      \A obj \in Objects : \A comp \in Components :
        LET old == lastTick.before[obj][comp]
            tgt == LAYOUT_TARGETS[KeyOfFlags(lastTick.read.left.detected,
                                             lastTick.read.right.detected)][obj][comp]
            new == currentLayout[obj][comp]
        IN /\ new = old + MulDiv(tgt - old, 3 * lastTick.dt, 1000)
           /\ Abs(new - old) <= MulDiv(Abs(tgt - old), 3 * lastTick.dt, 1000)

\* C6 witness: the right role dropped out for exactly one tick (DUAL,
\* LEFT_SOLO, DUAL) and the tick of the drop-out moved the blue opacity
C6_Witness ==
    /\ lastOp = "tick" /\ lastTick.keys = <<"DUAL", "LEFT_SOLO", "DUAL">>
    /\ currentLayout.blue.opacity # lastTick.before.blue.opacity

\* C10 (as claimed): the wave-influence of each object is in [0, 1].
C10_WaveInfluenceInUnit ==
    \A obj \in {pinkObject, blueObject} :
        /\ 0 <= waveInfluence(obj.currentState)
        /\ waveInfluence(obj.currentState) <= SCALE

\* C7 (as claimed): while only the left role is detected the selected layout
\* is LEFT_SOLO and the pink opacity, radius-scale and wave-amount approach
\* 1, 1.0 and 0; once both roles are detected the selected layout is DUAL and
\* the two x-offsets approach -2.2 and 2.2 and both wave-amounts 1.  Stated
\* for one tick of a held pattern: the selection is the claimed one and no
\* claimed component ends the tick farther from its claimed limit.
Nearer(new, old, limit) == Abs(new - limit) <= Abs(old - limit)

C7_ScenarioApproaches ==
    (lastOp = "tick" /\ Len(lastTick.keys) >= 2)
    => /\ (lastTick.read.left.detected /\ ~lastTick.read.right.detected)
             => lastTick.key = "LEFT_SOLO"
       /\ (lastTick.read.left.detected /\ lastTick.read.right.detected)
             => lastTick.key = "DUAL"
       /\ (lastTick.keys[1] = "LEFT_SOLO" /\ lastTick.keys[2] = "LEFT_SOLO")
             => /\ Nearer(currentLayout.pink.opacity, lastTick.before.pink.opacity, SCALE)
                /\ Nearer(currentLayout.pink.scale, lastTick.before.pink.scale, SCALE)
                /\ Nearer(currentLayout.pink.wave, lastTick.before.pink.wave, 0)
       /\ (lastTick.keys[1] = "DUAL" /\ lastTick.keys[2] = "DUAL")
             => /\ Nearer(currentLayout.pink.x, lastTick.before.pink.x, -Tenths(22))
                /\ Nearer(currentLayout.blue.x, lastTick.before.blue.x, Tenths(22))
                /\ Nearer(currentLayout.pink.wave, lastTick.before.pink.wave, SCALE)
                /\ Nearer(currentLayout.blue.wave, lastTick.before.blue.wave, SCALE)

\* C8: while no hand has been detected every run of animate selects IDLE,
\* the layout opacity of both objects is 0, the opacity each object has
\* interpolated and the opacity its materials render with do not increase,
\* and from the IdleSettleTicks-th run on the interpolated opacity is at or
\* below the render threshold and the materials are marked not visible.
ObjectOf(name) == IF name = "pink" THEN pinkObject ELSE blueObject

C8_IdleFadesOut ==
    ticks >= 1 =>
      /\ lastTick.key = "IDLE"
      /\ \A name \in Objects :
           /\ currentLayout[name].opacity = 0
           /\ ObjectOf(name).currentState.opacity <= lastTick.opacityBefore[name]
           /\ ObjectOf(name).sphereMaterial.opacity
                 <= MulDiv(lastTick.opacityBefore[name], 9, 10)
           /\ ticks >= IdleSettleTicks =>
                /\ ObjectOf(name).currentState.opacity <= VisibleThreshold
                /\ ~ObjectOf(name).sphereMaterial.visible
                /\ ~ObjectOf(name).ringMaterial.visible

\* C8 witness: idle ticks and an empty detector callback have run and both
\* objects have just been culled
C8_Witness ==
    /\ lastOp = "tick" /\ frames >= 1 /\ ticks >= 2
    /\ lastTick.opacityBefore.pink > VisibleThreshold
    /\ ~pinkObject.sphereMaterial.visible /\ ~blueObject.ringMaterial.visible

\* the roles a callback left detected, and the hand each role holds
Held == { role \in Roles : state[role].detected }
Assignment(st) ==
    [role \in Roles |-> IF st[role].detected THEN st[role].lastLandmarks ELSE << >>]

\* C11: after a detector callback the number of detected roles is the number
\* of hands reported, each reported hand is held by exactly one detected
\* role, and the delivered record marks exactly those roles detected; so no
\* two hands went into one role.
C11_OneHandPerRole ==
    lastOp = "results" =>
      /\ Cardinality(Held) = Len(lastResults)
      /\ \A i \in 1..Len(lastResults) :
            Cardinality({ role \in Held :
                            state[role].lastLandmarks = lastResults[i].landmarks }) = 1
      /\ \A role \in Roles : handData[role].detected <=> role \in Held

\* C11 witness: two hands that the detector both labelled Left went to two
\* different roles
C11_Witness ==
    /\ lastOp = "results" /\ Len(lastResults) = 2
    /\ lastResults[1].label = "Left" /\ lastResults[2].label = "Left"
    /\ Held = Roles
    /\ state.left.lastLandmarks # state.right.lastLandmarks

\* the same hands at the same positions with other detector labels
Relabel(results, labels) ==
    [i \in 1..Len(results) |-> [results[i] EXCEPT !.label = labels[i]]]
LabelTuples(n) ==
    IF n = 0 THEN { << >> }
    ELSE IF n = 1 THEN { <<l>> : l \in Labels }
    ELSE Labels \X Labels
\* the role assignment the callback makes of the last frame relabelled
AssignmentWith(labels) ==
    Assignment(ResultsOutcome(state, Relabel(lastResults, labels)).state)

\* C12 (as claimed): whatever labels the detector gives the hands of a
\* frame, with one hand or with two, the callback assigns the roles alike.
C12_LabelIndependent ==
    lastOp = "results" =>
      \A labels \in LabelTuples(Len(lastResults)) :
          AssignmentWith(labels) = Assignment(state)

\* C12 (amended): for a frame with two hands the role assignment is the same
\* under every labelling; for a frame with one hand the hand goes to the role
\* its label names, under every labelling.
C12_TwoHandLabelIndependent ==
    lastOp = "results" =>
      /\ Len(lastResults) = 2 =>
            \A labels \in LabelTuples(2) : AssignmentWith(labels) = Assignment(state)
      /\ Len(lastResults) = 1 =>
            \A labels \in LabelTuples(1) :
                AssignmentWith(labels) =
                    [role \in Roles |->
                        IF role = toLowerCase(labels[1])
                        THEN lastResults[1].landmarks ELSE << >>]

\* C12 witness: two hands both labelled Right were given the two roles
C12_Witness ==
    /\ lastOp = "results" /\ Len(lastResults) = 2
    /\ lastResults[1].label = "Right" /\ lastResults[2].label = "Right"
    /\ Held = Roles
    /\ WristX(lastResults[1]) > WristX(lastResults[2])
    /\ state.left.lastLandmarks = lastResults[2].landmarks

\* the hand a callback gave to a role (the role is detected)
HandOf(role) == state[role].lastLandmarks

\* C13 (as claimed): when a role that was detected earlier, and was not
\* detected by the previous callback, is detected again, its baseline depth
\* is captured anew, as the role's smoothed depth (the one it had on entry
\* or the one this frame's smoothing gives).
C13_BaselineRecaptured ==
    lastOp = "results" =>
      \A role \in Roles :
        (/\ state[role].detected
         /\ ~lastCall.before[role].detected
         /\ lastCall.before[role].baselineZ # NullNumber)
        => \/ state[role].baselineZ = Some(lastCall.before[role].smoothedPosition.z)
           \/ state[role].baselineZ = Some(state[role].smoothedPosition.z)

\* C14 (as claimed): the zoom delivered for a detected role is (baseline
\* depth - smoothed depth after this frame's smoothing) * 3; it is 0 on the
\* frame at which the baseline is captured; and it is positive exactly when
\* the smoothed depth is smaller than the baseline.
C14_ZoomFromBaseline ==
    lastOp = "results" =>
      \A role \in Roles :
        handData[role].detected =>
          /\ handData[role].zoom =
                (ValueOf(state[role].baselineZ) - state[role].smoothedPosition.z)
                * DepthSensitivity
          /\ lastCall.before[role].baselineZ = NullNumber => handData[role].zoom = 0
          /\ handData[role].zoom > 0
                <=> state[role].smoothedPosition.z < ValueOf(state[role].baselineZ)

\* C15: a callback that assigns no hand to a role leaves the role's smoothed
\* position, pinch, rotation and baseline as they were on entry and reports
\* the role not detected; a callback that does assign one smooths from the
\* values the role had on entry.
C15_UndetectedRoleRetained ==
    lastOp = "results" =>
      \A role \in Roles :
        /\ role \notin Held =>
              /\ FilterOf(state[role]) = [lastCall.before[role] EXCEPT !.detected = FALSE]
              /\ handData[role] = Undetected
        /\ role \in Held =>
              /\ state[role].smoothedPinch =
                    lerp(lastCall.before[role].smoothedPinch,
                         PinchNormalized(HandOf(role)),
                         GestureSmoothingNum, SmoothingDen)
              /\ state[role].smoothedPosition.z =
                    lerp(lastCall.before[role].smoothedPosition.z,
                         At(HandOf(role), WRIST).z,
                         PositionSmoothingNum, SmoothingDen)

\* C15 witness: the left role, detected by an earlier callback that moved
\* its filters, was given no hand by a callback that reported one hand
C15_Witness ==
    /\ lastOp = "results" /\ Len(lastResults) = 1
    /\ Held = {"right"}
    /\ state.left.baselineZ # NullNumber
    /\ state.left.smoothedPosition # createHandState.smoothedPosition
    /\ state.left.smoothedRotation # createHandState.smoothedRotation

\* the frame has a hand whose landmark list is too short
Malformed(hand) == Len(hand.landmarks) < NumLandmarks
\* the roles the malformed hands of a frame would have gone to: by label for
\* one hand, by wrist x for two
AffectedRoles(results) ==
    IF Len(results) = 1
    THEN (IF Malformed(results[1]) THEN { toLowerCase(results[1].label) } ELSE {})
    ELSE { (IF WristX(results[i]) < WristX(results[3 - i]) THEN "left" ELSE "right") :
             i \in { j \in 1..Len(results) : Malformed(results[j]) } }

\* C16 (as claimed): a callback given a hand with fewer than 21 points
\* completes, the record it delivers marks the affected role not detected,
\* the role's filters are as on entry, and the ticks that follow read a
\* record in which the role is not detected.
C16_MalformedRejected ==
    (frames >= 1 /\ AffectedRoles(lastResults) # {}) =>
      /\ ~lastCall.threw
      /\ \A role \in AffectedRoles(lastResults) :
            /\ ~handData[role].detected
            /\ lastOp = "results" =>
                  /\ ~state[role].detected
                  /\ FilterOf(state[role]) = [lastCall.before[role] EXCEPT !.detected = FALSE]
            /\ lastOp = "tick" => ~lastTick.read[role].detected

\* C17: once the initialization has failed the failure message stays, no run
\* of animate has happened or is requested, the tracker is unset, the
\* initialization has been called once, and only visibility events follow.
C17_FailedStartStaysStopped ==
    ui = "failed" =>
      /\ ticks = 0 /\ frames = 0
      /\ handTracker = Null
      /\ animationId = NoRequest /\ rafQueue = {}
      /\ initCalls = 1
      /\ lastOp \in {"failed", "hidden", "visible"}

\* C17 witness: after the failure the page was hidden and shown again, and
\* the visible event started nothing
C17_Witness ==
    /\ ui = "failed" /\ lastOp = "visible" /\ ~hidden
    /\ now > 0 /\ ticks = 0

\* C18 (as claimed): no run of animate happens while the document is hidden.
C18_NoTickWhileHidden == ticks >= 1 => ~lastTick.hidden

\* the longest time between two frames of an uninterrupted loop, and the
\* auto-spin part of an object's rotation about y
MaxFrameTime == CHOOSE t \in FrameTimes : \A u \in FrameTimes : t >= u
AutoSpinOf(obj) == obj.group.rotationY - obj.transformState.currentRotationY

\* C19 (as claimed): the run of animate that resumes the loop computes its
\* step from the time since the resume (0), leaves the layout where it was,
\* goes on interpolating the objects' visual and transform state from the
\* values they had, and moves no output further than a tick of an
\* uninterrupted loop does; for the rotation about y, whose spin part grows
\* with time, no further than the spin of the longest frame.
C19_ResumeContinuous ==
    lastOp = "resume" =>
      /\ lastTick.dt = 0
      /\ currentLayout = lastTick.before
      /\ \A name \in Objects :
            LET o == ObjectOf(name)
                b == lastTick.objectsBefore[name]
            IN /\ o.group.positionX = b.group.positionX
               /\ o.currentState.opacity =
                     lerp(b.currentState.opacity, b.targetState.opacity,
                          VisualLerpNum, LerpDen)
               /\ o.currentState.radiusScale =
                     lerp(b.currentState.radiusScale, b.targetState.radiusScale,
                          VisualLerpNum, LerpDen)
               /\ o.transformState.currentScale =
                     lerp(b.transformState.currentScale, o.transformState.targetScale,
                          TransformLerpNum, LerpDen)
               /\ o.transformState.currentZoom =
                     lerp(b.transformState.currentZoom, o.transformState.targetZoom,
                          ZoomLerpNum, LerpDen)
               /\ Abs(AutoSpinOf(o) - AutoSpinOf(b))
                     <= MulDiv(MulDiv(Seconds(MaxFrameTime), 5, 100),
                               o.currentState.spinSpeedMultiplier, SCALE)

\* the transform targets updateObjectFromHand sets from a role's record
ControlTargets(hand) ==
    updateObjectFromHand(createPointCloud, hand).transformState
TargetsOf(transformState) ==
    [targetScale |-> transformState.targetScale,
     targetRotationX |-> transformState.targetRotationX,
     targetRotationY |-> transformState.targetRotationY,
     targetZoom |-> transformState.targetZoom]
RoleOf(name) == IF name = "pink" THEN "left" ELSE "right"

\* C20: right after a run of animate, the record it read is the record the
\* detector callback delivered last (the all-undetected record before any
\* callback); the layout it selected is the one of that record's flags; and
\* each object was driven from that record: its transform targets are those
\* of the record's role when the role is detected and are untouched when it
\* is not.
C20_TickUsesLatestRecord ==
    lastOp \in {"start", "tick"} =>
      /\ lastTick.read = delivered
      /\ lastTick.key = KeyOfFlags(delivered.left.detected, delivered.right.detected)
      /\ \A name \in Objects :
            TargetsOf(ObjectOf(name).transformState) =
                IF delivered[RoleOf(name)].detected
                THEN TargetsOf(ControlTargets(delivered[RoleOf(name)]))
                ELSE TargetsOf(lastTick.objectsBefore[name].transformState)

\* C20 witness: two callbacks ran between the first run of animate and the
\* second, the earlier giving a hand to the right role only and the later
\* to the left role only, and the second run drove the pink object alone
C20_Witness ==
    /\ lastOp = "tick" /\ ticks = 2 /\ frames = 2
    /\ lastCall.before.right.baselineZ # NullNumber
    /\ delivered.left.detected /\ ~delivered.right.detected
    /\ lastTick.key = "LEFT_SOLO"
    /\ TargetsOf(pinkObject.transformState) # TargetsOf(createPointCloud.transformState)
    /\ TargetsOf(blueObject.transformState) = TargetsOf(createPointCloud.transformState)

\* C21: smooth(p, p, f) = p; smooth(p, x, 1) = x; and for every factor of
\* (0, 1] the result lies between p and x inclusive.
C21_SmoothContract ==
    probe.op = "lerp" =>
        /\ probe.p = probe.x => probe.out = probe.p
        /\ probe.f = One => probe.out = probe.x
        /\ \/ NumberLeq(probe.p, probe.out) /\ NumberLeq(probe.out, probe.x)
           \/ NumberLeq(probe.x, probe.out) /\ NumberLeq(probe.out, probe.p)

\* C23 (as claimed): every rest position of the primary cluster has
\* Euclidean norm exactly R, that is x^2 + y^2 + z^2 = R^2.
NormSquared(p) == p.x * p.x + p.y * p.y + p.z * p.z
C23_NormExactlyR ==
    probe.op = "sphere" => NormSquared(probe.out) = SphereRadius * SphereRadius

\* C23 (amended): every rest position of the primary cluster has norm R up
\* to the rounding of the arithmetic: x^2 + y^2 + z^2 differs from R^2 by
\* at most R^2 / 1000.
C23_NormNearR ==
    probe.op = "sphere" =>
        Abs(NormSquared(probe.out) - SphereRadius * SphereRadius)
            <= (SphereRadius * SphereRadius) \div 1000

\* the last point of the loop has been generated, off the sphere by rounding
C23_Witness ==
    /\ probe.op = "sphere" /\ probe.i = TotalPoints - 1
    /\ NormSquared(probe.out) # SphereRadius * SphereRadius

\* the deformation a rendered sphere coordinate may show against its rest
\* coordinate c: the breathing (0.005 times the spin multiplier) and the
\* two waves (0.05 and 0.025), weighted by the wave influence, and the
\* rounding of the products
MaxDeformation(c, visual) ==
    LET w == waveInfluence(visual)
        stable == MulDiv(Thousandths(5), Abs(visual.spinSpeedMultiplier), SCALE)
        dynamic == Thousandths(75)
    IN MulDiv(Abs(c), MulDiv(stable, SCALE - w, SCALE) + MulDiv(dynamic, w, SCALE),
              SCALE) + 3
MaxChaos(visual) ==
    Hundredths(2) + MulDiv(Hundredths(8), waveInfluence(visual), SCALE) + 3

\* C22: no call changes a stored rest position of the sphere or of a ring
\* (nor a ring's radius); and once update has run, every rendered position
\* is its own rest position deformed by no more than one frame's
\* deformation: a sphere point by the breathing and wave factors, a ring
\* point by the frame's chaos, however many updates went before.
C22_RestPositionsFixed ==
    /\ cloud.originalPositions = NewCloud.originalPositions
    /\ \A r \in 1..RingCount :
          /\ cloud.rings[r].originalPositions = NewCloud.rings[r].originalPositions
          /\ cloud.rings[r].radius = NewCloud.rings[r].radius
    /\ cloud.updates >= 1 =>
          /\ \A k \in 1..Len(cloud.positions) :
                LET rest == cloud.originalPositions[k]
                    at == cloud.positions[k]
                    visual == cloud.object.currentState
                IN /\ Abs(at.x - rest.x) <= MaxDeformation(rest.x, visual)
                   /\ Abs(at.y - rest.y) <= MaxDeformation(rest.y, visual)
                   /\ Abs(at.z - rest.z) <= MaxDeformation(rest.z, visual)
          /\ \A r \in 1..RingCount :
                LET rest == cloud.rings[r].originalPositions[1]
                    at == cloud.rings[r].positions[1]
                    chaos == MaxChaos(cloud.object.currentState)
                IN /\ Abs(at.x - rest.x) <= chaos
                   /\ Abs(at.y - rest.y) <= chaos
                   /\ Abs(at.z - rest.z) <= chaos

\* C22 witness: setters and two updates have run, the second at 2.5 s, and
\* the sphere and a ring are rendered away from their rest positions
C22_Witness ==
    /\ lastOp = "update" /\ cloud.updates = 2 /\ cloud.sets >= 2 /\ cloud.time = 2500
    /\ cloud.positions # cloud.originalPositions
    /\ cloud.rings[1].positions[1] # Position(cloud.rings[1].originalPositions[1])

\* the sway and the spin update computes for the time of its last call
SwayAt(time) == MulDiv(sin(MulDiv(Seconds(time), 2, 10)), 5, 100)
SpinAt(time, visual) ==
    MulDiv(MulDiv(Seconds(time), 5, 100), visual.spinSpeedMultiplier, SCALE)

\* C25 (as claimed): after an update, with wave amount 0 neither component
\* of the user's rotation shows in the group's rotation (x is the sway, y
\* the spin), and at full wave influence the group's rotation is the
\* interpolated user rotation in both components.
C25_RotationBlend ==
    cloud.updates >= 1 =>
        LET visual == cloud.object.currentState
            tr == cloud.object.transformState
            group == cloud.object.group
        IN /\ visual.waveAmount = 0 =>
                /\ group.rotationX = SwayAt(cloud.time)
                /\ group.rotationY = SpinAt(cloud.time, visual)
           /\ waveInfluence(visual) = SCALE =>
                /\ group.rotationX = tr.currentRotationX
                /\ group.rotationY = tr.currentRotationY

\* C25 (amended): after an update, with wave amount 0 the rotation about x
\* is the sway alone and at full wave influence it is the interpolated
\* user rotation about x; the rotation about y is in every mode the spin
\* plus the interpolated user rotation about y.
C25_RotationBlendX ==
    cloud.updates >= 1 =>
        LET visual == cloud.object.currentState
            tr == cloud.object.transformState
            group == cloud.object.group
        IN /\ visual.waveAmount = 0 => group.rotationX = SwayAt(cloud.time)
           /\ waveInfluence(visual) = SCALE => group.rotationX = tr.currentRotationX
           /\ group.rotationY = SpinAt(cloud.time, visual) + tr.currentRotationY

\* C25 witness: a stable object whose user rotation is under way while the
\* group sways
C25_Witness ==
    /\ lastOp = "update" /\ cloud.time = 2500
    /\ cloud.object.currentState.waveAmount = 0
    /\ cloud.object.transformState.currentRotationX # 0
    /\ cloud.object.transformState.currentRotationY # 0
    /\ cloud.object.group.rotationX # cloud.object.transformState.currentRotationX

\* C30: the target scale is in [0.1, 3] and the target zoom in [-5, 2], and
\* so are the interpolated scale and zoom; and while setScale was called
\* through updateObjectFromHand only, the target scale is in [0.5, 2]
\* (2 being 0.5 + 1.5 * 1).
C30_TransformRanges ==
    LET tr == cloud.object.transformState
    IN /\ Tenths(1) <= tr.targetScale /\ tr.targetScale <= 3 * SCALE
       /\ -5 * SCALE <= tr.targetZoom /\ tr.targetZoom <= 2 * SCALE
       /\ Tenths(1) <= tr.currentScale /\ tr.currentScale <= 3 * SCALE
       /\ -5 * SCALE <= tr.currentZoom /\ tr.currentZoom <= 2 * SCALE
       /\ ~cloud.direct =>
             /\ Tenths(5) <= tr.targetScale
             /\ tr.targetScale <= Tenths(5) + MulDiv(SCALE, 15, 10)

\* C30 witness: setScale and setZoom were called with values beyond the
\* ranges, the targets stand at the ends of the ranges and two updates
\* have moved the interpolated values towards them
C30_Witness ==
    /\ lastOp = "update" /\ cloud.updates = 2 /\ cloud.direct
    /\ cloud.object.transformState.targetScale = 3 * SCALE
    /\ cloud.object.transformState.targetZoom = -5 * SCALE
    /\ cloud.object.transformState.currentScale > SCALE
    /\ cloud.object.transformState.currentZoom < 0

\* C24: after every update of an object its sphere material and its rings
\* are marked visible exactly when the interpolated opacity is above 0.01,
\* the material opacities are 0.9 and 0.6 times that opacity; an object
\* with target opacity 0 that was marked not visible stays so, and it is
\* marked not visible at the latest after IdleSettleTicks runs.
C24_RenderedIffOpaque ==
    ticks >= 1 =>
      \A name \in Objects :
        LET obj == ObjectOf(name)
            opacity == obj.currentState.opacity
        IN /\ obj.sphereMaterial.visible <=> (opacity > VisibleThreshold)
           /\ obj.ringMaterial.visible <=> (opacity > VisibleThreshold)
           /\ obj.sphereMaterial.opacity = MulDiv(opacity, 9, 10)
           /\ obj.ringMaterial.opacity = MulDiv(opacity, 6, 10)
           /\ obj.targetState.opacity = 0 =>
                /\ ~lastTick.objectsBefore[name].sphereMaterial.visible
                      => ~obj.sphereMaterial.visible /\ ~obj.ringMaterial.visible
                /\ ticks >= IdleSettleTicks
                      => ~obj.sphereMaterial.visible /\ ~obj.ringMaterial.visible

\* C24 witness: an object already marked not visible was updated again
\* with an opacity still above 0 and its target at 0, and stayed not visible
C24_Witness ==
    /\ lastOp = "tick" /\ ticks >= 2
    /\ ~lastTick.objectsBefore.blue.sphereMaterial.visible
    /\ blueObject.targetState.opacity = 0
    /\ blueObject.currentState.opacity > 0
    /\ blueObject.currentState.opacity <= VisibleThreshold
    /\ ~blueObject.sphereMaterial.visible /\ ~blueObject.ringMaterial.visible


\* C26: right after a run of animate the transform targets of the pink
\* object are those of the left role's signal and the targets of the blue
\* object those of the right role's signal (scale 0.5 + 1.5 * pinch, the
\* signal's rotation and zoom) when the role is detected in the record the
\* run read, and are the targets the object had before the run when it is
\* not.
C26_StrictControlMapping ==
    lastOp \in {"start", "tick"} =>
      \A name \in Objects :
        LET signal == lastTick.read[IF name = "pink" THEN "left" ELSE "right"]
            now_ == ObjectOf(name).transformState
            was == lastTick.objectsBefore[name].transformState
        IN IF signal.detected
           THEN /\ now_.targetScale = Tenths(5) + MulDiv(signal.pinch, 15, 10)
                /\ now_.targetRotationX = signal.rotation.x
                /\ now_.targetRotationY = signal.rotation.y
                /\ now_.targetZoom = signal.zoom
           ELSE /\ now_.targetScale = was.targetScale
                /\ now_.targetRotationX = was.targetRotationX
                /\ now_.targetRotationY = was.targetRotationY
                /\ now_.targetZoom = was.targetZoom

\* C26 witness: a run of animate read a record with the left role detected
\* and the right role not, after the blue object had been driven by an
\* earlier record: the pink object's targets are the left signal's and the
\* blue object's are the ones it had, which are not the defaults
C26_Witness ==
    /\ lastOp = "tick"
    /\ lastTick.read.left.detected /\ ~lastTick.read.right.detected
    /\ TargetsOf(blueObject.transformState) # TargetsOf(createPointCloud.transformState)
    /\ TargetsOf(blueObject.transformState)
          = TargetsOf(lastTick.objectsBefore.blue.transformState)
    /\ pinkObject.transformState.targetScale
          = Tenths(5) + MulDiv(lastTick.read.left.pinch, 15, 10)
    /\ TargetsOf(pinkObject.transformState)
          # TargetsOf(lastTick.objectsBefore.pink.transformState)


\* C27: resetBaseline leaves the tracker state as it found it but for the
\* two baselines, which it clears; a detector callback that detects a role
\* whose baseline is unset sets the baseline to the wrist depth of the hand
\* the role holds, and every other callback leaves the role's baseline as
\* it was.
C27_ResetBaseline ==
    /\ lastOp = "reset" =>
          /\ state.left.baselineZ = NullNumber
          /\ state.right.baselineZ = NullNumber
          /\ \A role \in Roles :
                [state[role] EXCEPT !.baselineZ = probe.before[role].baselineZ]
                   = probe.before[role]
          /\ state.bothDetected = probe.before.bothDetected
    /\ lastOp = "results" =>
          \A role \in Roles :
             state[role].baselineZ =
                IF state[role].detected /\ lastCall.before[role].baselineZ = NullNumber
                THEN Some(At(HandOf(role), WRIST).z)
                ELSE lastCall.before[role].baselineZ

\* C27 witness: a reset cleared a baseline the left role had, and the next
\* callback that detected the role captured another depth
C27_Witness ==
    /\ lastOp = "results" /\ probe.op = "resetBaseline"
    /\ probe.before.left.baselineZ # NullNumber
    /\ lastCall.before.left.baselineZ = NullNumber
    /\ state.left.detected
    /\ state.left.baselineZ = Some(At(HandOf("left"), WRIST).z)
    /\ state.left.baselineZ # probe.before.left.baselineZ
    /\ state.left.smoothedPosition # lastCall.before.left.smoothedPosition


\* C28: in the record the detector callback delivered last, bothDetected is
\* true exactly when left.detected and right.detected both are, and the
\* layout a tick would select from the record is DUAL exactly then.
C28_BothDetectedIffBoth ==
    /\ delivered.bothDetected
          <=> (delivered.left.detected /\ delivered.right.detected)
    /\ TargetKey(delivered) = "DUAL"
          <=> (delivered.left.detected /\ delivered.right.detected)

\* C28 witness: a callback with two hands that the detector both labelled
\* "Right" delivered a record with both roles detected and bothDetected set
C28_Witness ==
    /\ lastOp = "results" /\ Len(lastResults) = 2
    /\ lastResults[1].label = "Right" /\ lastResults[2].label = "Right"
    /\ delivered.left.detected /\ delivered.right.detected
    /\ delivered.bothDetected
    /\ TargetKey(delivered) = "DUAL"


\* C29: there is never more than one pending animation-frame request, and
\* right after a visibility-hidden event there is none.
C29_SingleLoop ==
    /\ Cardinality(rafQueue) <= 1
    /\ lastOp = "hidden" => rafQueue = {}


====
